---- MODULE Spec2Model ----
(***************************************************************************)
(* Maelmon-Backend: the card supply model (admin add-card route of the     *)
(* triple-keyed Card schema) and the daily-pack claim route, as state      *)
(* machines over the persisted users and cards collections.                *)
(*                                                                         *)
(* Every await of a handler is a point where other handlers can run, so    *)
(* each handler is split into one action per storage round trip.           *)
(***************************************************************************)
EXTENDS Integers, Sequences, FiniteSets, TLC

VARIABLES now, users, cards, claim, admin, started, version, login, chat, form

\* The state of the account handlers (login callback, chat bot) and of the
\* add-card validation: left alone by the claim and add-card actions.
others == <<version, login, chat, form>>

vars == <<now, users, cards, claim, admin, started, others>>

(* ------------------------------ bounds --------------------------------- *)

\* Most requests (claims and admin add-card together) of one behaviour.
MaxRequests == 3
\* Largest maxSupply an admin request submits in the model.
MaxSupplyInput == 2

\* The _id values of the users collection (the session of a request names one).
Users == {"u1", "u2"}
\* The sessions of add-card requests: of a user, or of nobody (no login).
Sessions == Users \cup {"anonymous"}
\* The Twitch identities that log in and chat.
TwitchIds == {"t1", "t2"}
\* profile.display_name / tags['display-name'] at the time of a login or message
DisplayNames == {"Mael", "Mael_"}
\* Slots for the requests in flight: two of each kind can overlap.
ClaimReqs == {1, 2}
AdminReqs == {1, 2}
LoginReqs == {1, 2}
ChatReqs == {1, 2}
\* A card "name" stands for the (name, type, rarity) triple of a request.
Names == {"Dragon"}
\* The card names of !addcard messages.
ChatNames == {"Dragon", "Slime"}

(* ----------------------------- constants ------------------------------- *)

DAILY_PACK_COOLDOWN_MS == 24 * 60 * 60 * 1000
HOUR_MS == 60 * 60 * 1000
DAILY_PACK_CURRENCY == 50
STARTING_CURRENCY == 100
\* maxSupply sentinel: -1 = unlimited
UNLIMITED == -1
\* lastPackClaimed default: null (no Date is negative)
NULL_DATE == -1
\* ownerId default: null
NULL_OWNER == "null"

\* The request times the model distinguishes (milliseconds).
Times ==
    {0, HOUR_MS, DAILY_PACK_COOLDOWN_MS, DAILY_PACK_COOLDOWN_MS + HOUR_MS}

\* maxSupply values of validated requests; -1 is also the omitted field.
MaxSupplyInputs == UNLIMITED..MaxSupplyInput

(* ------------------------------ helpers -------------------------------- *)

\* No document (findById / findOne resolved null); also an unused _id.
NoUserDoc ==
    [exists |-> FALSE, twitchId |-> "", displayName |-> "", isAdmin |-> FALSE,
     currency |-> 0, lastPackClaimed |-> NULL_DATE, cards |-> <<>>]
\* attack stands for the descriptive fields of a record (attack, defense,
\* artwork); minted records that the restock branch created the record
\* (history, read by no handler).
NoCard == [name |-> "", attack |-> 0, maxSupply |-> UNLIMITED,
           currentSupply |-> 0, ownerId |-> NULL_OWNER, minted |-> FALSE]

IdleClaim ==
    [pc |-> "idle", uid |-> "", now |-> 0, loaded |-> NoUserDoc,
     user |-> NoUserDoc, allCards |-> <<>>, card |-> 0, status |-> 0,
     message |-> "", peers |-> {}]

IdleAdmin ==
    [pc |-> "idle", uid |-> "", name |-> "", attack |-> 0,
     finalMaxSupply |-> UNLIMITED, existing |-> 0,
     doc |-> NoCard, cardToSave |-> NoCard, status |-> 0]

\* The snapshots of the login callback and of the chat handler:
\*   "v0"  part_002: login creates without currency; chat has !addcard and
\*         registers nobody;
\*   "v1"  server.js 1-285 and part_003 1-265: login and chat create with
\*         currency 0; chat catches the duplicate-key error;
\*   "v2"  part_003 266-565 and server.js 286-547: login creates with
\*         currency 100, chat with 0; chat does not catch.
Versions == {"v0", "v1", "v2"}

\* The commands the chat handler of a snapshot acts on.
Messages(v) == IF v = "v0" THEN {"!addcard", "!mycards"} ELSE {"!currency"}

IdleLogin ==
    [pc |-> "idle", twitchId |-> "", displayName |-> "", user |-> "",
     doc |-> NoUserDoc, newUser |-> NoUserDoc, err |-> ""]

IdleChat ==
    [pc |-> "idle", twitchId |-> "", displayName |-> "", message |-> "",
     listed |-> <<>>, welcomed |-> FALSE,
     user |-> "", doc |-> NoUserDoc, newUser |-> NoUserDoc, newCard |-> NoCard,
     outcome |-> ""]

(* ---------------------- JavaScript values of a body --------------------- *)

\* A JSON value of req.body as JavaScript sees it: its type, and its number
\* or its string.
Undefined == [t |-> "undefined", n |-> 0, s |-> ""]
Null == [t |-> "null", n |-> 0, s |-> ""]
Num(k) == [t |-> "number", n |-> k, s |-> ""]
Str(x) == [t |-> "string", n |-> 0, s |-> x]

\* The result of a numeric conversion: NaN, or the number n.
NaN == [nan |-> TRUE, n |-> 0]
Finite(k) == [nan |-> FALSE, n |-> k]

\* !x
Falsy(x) ==
    \/ x.t \in {"undefined", "null"}
    \/ x.t = "number" /\ x.n = 0
    \/ x.t = "string" /\ x.s = ""

\* Number(x), on the string literals of the model: the whole string must be
\* a numeral, and the empty string is 0.
ToNumber(x) ==
    CASE x.t = "undefined" -> NaN
      [] x.t = "null" -> Finite(0)
      [] x.t = "number" -> Finite(x.n)
      [] x.t = "string" /\ x.s = "" -> Finite(0)
      [] x.t = "string" /\ x.s = "7" -> Finite(7)
      [] x.t = "string" /\ x.s = "-2" -> Finite(-2)
      [] OTHER -> NaN

\* parseInt(x): the longest numeral prefix of String(x); NaN if there is none.
ParseInt(x) ==
    CASE x.t = "number" -> Finite(x.n)
      [] x.t = "string" /\ x.s = "7" -> Finite(7)
      [] x.t = "string" /\ x.s = "-2" -> Finite(-2)
      [] x.t = "string" /\ x.s = "2abc" -> Finite(2)
      [] OTHER -> NaN

\* isNaN(x)
IsNaN(x) == ToNumber(x).nan

\* The bodies the model submits.
RequiredStrings == {Undefined, Str("Dragon")}
StatInputs == {Undefined, Num(0), Num(7), Str("7"), Str("abc")}
MaxSupplyBodies ==
    {Undefined, Null, Num(-2), Num(-1), Num(2), Str("abc"), Str("2abc")}

Bodies ==
    [name : RequiredStrings, type : RequiredStrings, attack : StatInputs,
     defense : StatInputs, characterImageUrl : RequiredStrings,
     backgroundImageUrl : RequiredStrings, rarity : RequiredStrings,
     maxSupply : MaxSupplyBodies]

EmptyBody ==
    [name |-> Undefined, type |-> Undefined, attack |-> Undefined,
     defense |-> Undefined, characterImageUrl |-> Undefined,
     backgroundImageUrl |-> Undefined, rarity |-> Undefined,
     maxSupply |-> Undefined]

IdleForm ==
    [pc |-> "idle", body |-> EmptyBody, status |-> 0, message |-> "",
     finalMaxSupply |-> UNLIMITED]

\* Faulty variants of the cooldown test: the comparison turned round, and <= for <.
CooldownActiveInverted(lastPackClaimed, t) ==
    /\ lastPackClaimed # NULL_DATE
    /\ (t - lastPackClaimed) > DAILY_PACK_COOLDOWN_MS

CooldownActiveInclusive(lastPackClaimed, t) ==
    /\ lastPackClaimed # NULL_DATE
    /\ (t - lastPackClaimed) <= DAILY_PACK_COOLDOWN_MS

\* user.lastPackClaimed && (now.getTime() - user.lastPackClaimed.getTime()) < DAILY_PACK_COOLDOWN_MS

CooldownActive(lastPackClaimed, t) ==
    /\ lastPackClaimed # NULL_DATE
    /\ (t - lastPackClaimed) < DAILY_PACK_COOLDOWN_MS

\* Faulty variant of RandomIndexes: the draw always yields the first index.
RandomIndexesFirst(n) == {0}

\* Math.floor(Math.random() * allCards.length): an index in 0 .. n-1
RandomIndexes(n) == 0..(n - 1)

\* user.cards.findIndex(c => c.cardId.equals(randomCard._id)); 0 stands for -1
FindIndex(inv, cardId) ==
    IF \E i \in 1..Len(inv) : inv[i].cardId = cardId
    THEN CHOOSE i \in 1..Len(inv) :
            /\ inv[i].cardId = cardId
            /\ \A j \in 1..(i - 1) : inv[j].cardId # cardId
    ELSE 0

\* lines 471-476: quantity += 1 on the entry found, else push a new entry
AddToInventory(inv, cardId) ==
    LET i == FindIndex(inv, cardId) IN
    IF i > 0
    THEN [inv EXCEPT ![i].quantity = inv[i].quantity + 1]
    ELSE Append(inv, [cardId |-> cardId, quantity |-> 1])

\* What user.save() writes for the inventory: mongoose sends the modified
\* paths only, $set cards.<i>.quantity for a changed entry and $push for a
\* new one, onto whatever the stored array is at that time.
SaveInventory(stored, loaded, mutated) ==
    IF Len(mutated) > Len(loaded)
    THEN Append(stored, mutated[Len(mutated)])
    ELSE LET i == CHOOSE k \in 1..Len(mutated) :
                     mutated[k].quantity # loaded[k].quantity
         IN  [stored EXCEPT ![i].quantity = mutated[i].quantity]

(* ------------------------------- Init ---------------------------------- *)

Init ==
    /\ now = 0
    /\ users = [u \in Users |->
                  [exists |-> TRUE,
                   twitchId |-> IF u = "u1" THEN "t1" ELSE "t2",
                   displayName |-> "Mael",
                   isAdmin |-> (u = "u1"),
                   currency |-> STARTING_CURRENCY,
                   lastPackClaimed |-> NULL_DATE,
                   cards |-> <<>>]]
    /\ cards = <<>>
    /\ claim = [p \in ClaimReqs |-> IdleClaim]
    /\ admin = [a \in AdminReqs |-> IdleAdmin]
    /\ started = 0
    /\ version = "v2"
    /\ login = [l \in LoginReqs |-> IdleLogin]
    /\ chat = [c \in ChatReqs |-> IdleChat]
    /\ form = IdleForm

(* ------------------------------- clock --------------------------------- *)

Tick ==
    /\ \E t \in Times : t > now /\ now' = t
    /\ UNCHANGED <<users, cards, claim, admin, started, others>>

(* ---------------- POST /api/user/claim-daily-pack ---------------------- *)

\* The claim requests between their first and their last storage call.
InFlight == {q \in ClaimReqs : claim[q].pc \in {"finding", "saving"}}

\* Faulty variant of IsAuthenticated: the route without the middleware.
IsAuthenticatedSkipped(u) == TRUE

\* req.isAuthenticated(): deserializeUser resolved the session's id to a user.
IsAuthenticated(u) == u \in Users /\ users[u].exists

\* isAuthenticated answers 401; the route handler does not run.
ClaimUnauthenticated(p, u) ==
    /\ claim[p].pc = "idle"
    /\ \A q \in ClaimReqs : claim[q].pc = "idle" => p <= q
    /\ started < MaxRequests
    /\ ~IsAuthenticated(u)
    /\ started' = started + 1
    /\ claim' = [claim EXCEPT ![p] =
            [IdleClaim EXCEPT !.pc = "done", !.uid = u, !.now = now,
                              !.status = 401, !.message = "unauthenticated"]]
    /\ UNCHANGED <<now, users, cards, admin, others>>

\* deserializeUser loads the user; the handler takes `now` and checks the cooldown.
\* peers records the requests this one overlaps (history, read by no handler).
ClaimStart(p, u) ==
    /\ claim[p].pc = "idle"
    /\ IsAuthenticated(u)
    /\ \A q \in ClaimReqs : claim[q].pc = "idle" => p <= q
    /\ started < MaxRequests
    /\ started' = started + 1
    /\ LET user == users[u] IN
       IF CooldownActive(user.lastPackClaimed, now)
       THEN claim' = [claim EXCEPT ![p] =
                [IdleClaim EXCEPT !.pc = "done", !.uid = u, !.now = now,
                                  !.loaded = user, !.user = user,
                                  !.status = 400, !.message = "cooldown"]]
       ELSE claim' = [claim EXCEPT ![p] =
                [IdleClaim EXCEPT !.pc = "finding", !.uid = u, !.now = now,
                                  !.loaded = user, !.user = user,
                                  !.peers = InFlight]]
    /\ UNCHANGED <<now, users, cards, admin, others>>

\* Faulty variant of ClaimFind: the empty-store branch returns without
\* sending a response.
ClaimFindSilent(p) ==
    /\ claim[p].pc = "finding"
    /\ LET allCards == cards IN
       IF Len(allCards) = 0
       THEN claim' = [claim EXCEPT ![p].pc = "returned"]
       ELSE \E r \in RandomIndexes(Len(allCards)) :
              LET randomCard == r + 1
                  user == claim[p].user
              IN claim' = [claim EXCEPT
                      ![p].pc = "saving",
                      ![p].allCards = allCards,
                      ![p].card = randomCard,
                      ![p].user =
                          [user EXCEPT
                             !.currency = user.currency + DAILY_PACK_CURRENCY,
                             !.lastPackClaimed = claim[p].now,
                             !.cards = AddToInventory(user.cards, randomCard)]]
    /\ UNCHANGED <<now, users, cards, admin, started, others>>

\* Faulty variant of ClaimFind: the stamp is the time of the selection, not the
\* timestamp taken when the request started.
ClaimFindStampLate(p) ==
    /\ claim[p].pc = "finding"
    /\ LET allCards == cards IN
       IF Len(allCards) = 0
       THEN claim' = [claim EXCEPT ![p].pc = "done", ![p].status = 500,
                                   ![p].message = "nocards"]
       ELSE \E r \in RandomIndexes(Len(allCards)) :
              LET randomCard == r + 1
                  user == claim[p].user
              IN claim' = [claim EXCEPT
                      ![p].pc = "saving",
                      ![p].allCards = allCards,
                      ![p].card = randomCard,
                      ![p].user =
                          [user EXCEPT
                             !.currency = user.currency + DAILY_PACK_CURRENCY,
                             !.lastPackClaimed = now,
                             !.cards = AddToInventory(user.cards, randomCard)]]
    /\ UNCHANGED <<now, users, cards, admin, started, others>>

\* await Card.find({}) returns; pick a card; mutate the loaded user document.
ClaimFind(p) ==
    /\ claim[p].pc = "finding"
    /\ LET allCards == cards IN
       IF Len(allCards) = 0
       THEN claim' = [claim EXCEPT ![p].pc = "done", ![p].status = 500,
                                   ![p].message = "nocards"]
       ELSE \E r \in RandomIndexes(Len(allCards)) :
              LET randomCard == r + 1
                  user == claim[p].user
              IN claim' = [claim EXCEPT
                      ![p].pc = "saving",
                      ![p].allCards = allCards,
                      ![p].card = randomCard,
                      ![p].user =
                          [user EXCEPT
                             !.currency = user.currency + DAILY_PACK_CURRENCY,
                             !.lastPackClaimed = claim[p].now,
                             !.cards = AddToInventory(user.cards, randomCard)]]
    /\ UNCHANGED <<now, users, cards, admin, started, others>>

\* Card.find rejects: the catch block answers 500.
ClaimFindFail(p) ==
    /\ claim[p].pc = "finding"
    /\ claim' = [claim EXCEPT ![p].pc = "done", ![p].status = 500,
                              ![p].message = "error"]
    /\ UNCHANGED <<now, users, cards, admin, started, others>>

\* Faulty variant of ClaimSave: the currency and the stamp are written, the
\* inventory is not.
ClaimSavePartial(p) ==
    /\ claim[p].pc = "saving"
    /\ LET u == claim[p].uid
           doc == claim[p].user
       IN users' = [users EXCEPT
                ![u].currency = doc.currency,
                ![u].lastPackClaimed = doc.lastPackClaimed]
    /\ claim' = [claim EXCEPT ![p].pc = "done", ![p].status = 200,
                              ![p].message = "claimed"]
    /\ UNCHANGED <<now, cards, admin, started, others>>

\* await user.save() succeeds; the success response is sent.
ClaimSave(p) ==
    /\ claim[p].pc = "saving"
    /\ LET u == claim[p].uid
           doc == claim[p].user
       IN users' = [users EXCEPT
                ![u].currency = doc.currency,
                ![u].lastPackClaimed = doc.lastPackClaimed,
                ![u].cards = SaveInventory(users[u].cards, claim[p].loaded.cards,
                                           doc.cards)]
    /\ claim' = [claim EXCEPT ![p].pc = "done", ![p].status = 200,
                              ![p].message = "claimed"]
    /\ UNCHANGED <<now, cards, admin, started, others>>

\* Faulty variant of ClaimSaveFail: the stamp is written although the save of the
\* grant failed.
ClaimSaveFailStamped(p) ==
    /\ claim[p].pc = "saving"
    /\ users' = [users EXCEPT ![claim[p].uid].lastPackClaimed = claim[p].now]
    /\ claim' = [claim EXCEPT ![p].pc = "done", ![p].status = 500,
                              ![p].message = "error"]
    /\ UNCHANGED <<now, cards, admin, started, others>>

\* user.save() rejects: the catch block answers 500, nothing is written.
ClaimSaveFail(p) ==
    /\ claim[p].pc = "saving"
    /\ claim' = [claim EXCEPT ![p].pc = "done", ![p].status = 500,
                              ![p].message = "error"]
    /\ UNCHANGED <<now, users, cards, admin, started, others>>

\* The JSON body of the response of a finished claim request r.
ResponseBody(r) ==
    CASE r.message = "unauthenticated" -> [message |-> "Not authenticated"]
      [] r.message = "cooldown" ->
            [message |-> "Daily pack already claimed. Please wait."]
      [] r.message = "nocards" -> [message |-> "No cards available to claim."]
      [] r.message = "claimed" ->
            [message |-> "You claimed your daily pack and received a card and 50 currency!",
             card |-> r.allCards[r.card]]
      [] OTHER -> [message |-> "Error claiming daily pack. Please try again."]

\* The response is out; the slot takes the next request.
ClaimReset(p) ==
    /\ claim[p].pc = "done"
    /\ claim' = [q \in ClaimReqs |->
                    IF q = p THEN IdleClaim
                    ELSE [claim[q] EXCEPT !.peers = @ \ {p}]]
    /\ UNCHANGED <<now, users, cards, admin, started, others>>

(* ------------------- POST /api/admin/cards (triple model) --------------- *)

\* Card.findOne({ name, type, rarity, ownerId: null }): the records that match
Matching(name) ==
    {i \in 1..Len(cards) : cards[i].name = name /\ cards[i].ownerId = NULL_OWNER}

\* existingCardDefinition.maxSupply !== -1 && currentSupply >= maxSupply
DefinitionExhausted(doc) ==
    doc.maxSupply # UNLIMITED /\ doc.currentSupply >= doc.maxSupply

\* Faulty variant of IsAdmin: the route without the middleware.
IsAdminSkipped(u) == TRUE

\* isAuthenticated, isAdmin: req.isAuthenticated() && req.user.isAdmin
IsAdmin(u) == IsAuthenticated(u) /\ users[u].isAdmin

\* The middleware refuses the request: isAuthenticated answers 401 when the
\* session resolves to no user, isAdmin answers 403 when the user is no
\* admin; the route handler does not run.
AdminDenied(a, u) ==
    /\ admin[a].pc = "idle"
    /\ \A b \in AdminReqs : admin[b].pc = "idle" => a <= b
    /\ started < MaxRequests
    /\ ~IsAdmin(u)
    /\ started' = started + 1
    /\ admin' = [admin EXCEPT ![a] =
            [IdleAdmin EXCEPT !.pc = "done", !.uid = u,
                              !.status = IF IsAuthenticated(u) THEN 403
                                                               ELSE 401]]
    /\ UNCHANGED <<now, users, cards, claim, others>>

\* The route of server.js 468-484: the admin check is commented out, and so
\* is the save: any request is answered 201 and nothing is stored.
AdminSimulated(a, u) ==
    /\ admin[a].pc = "idle"
    /\ \A b \in AdminReqs : admin[b].pc = "idle" => a <= b
    /\ started < MaxRequests
    /\ started' = started + 1
    /\ admin' = [admin EXCEPT ![a] =
            [IdleAdmin EXCEPT !.pc = "done", !.uid = u, !.status = 201]]
    /\ UNCHANGED <<now, users, cards, claim, others>>

\* The request passed the middleware and the validation; findOne returns;
\* branch on the definition found.
\* findOne has no sort: any matching record can be the one returned.
AdminStart(a, u, name, maxSupply, attack) ==
    /\ admin[a].pc = "idle"
    /\ IsAdmin(u)
    /\ \A b \in AdminReqs : admin[b].pc = "idle" => a <= b
    /\ started < MaxRequests
    /\ started' = started + 1
    /\ LET finalMaxSupply == maxSupply IN
       IF Matching(name) # {}
       THEN \E e \in Matching(name) :
              LET existing == cards[e] IN
              IF DefinitionExhausted(existing)
              THEN admin' = [admin EXCEPT ![a] =
                      [IdleAdmin EXCEPT !.pc = "done", !.name = name,
                                        !.uid = u, !.attack = attack,
                                        !.finalMaxSupply = finalMaxSupply,
                                        !.existing = e, !.doc = existing,
                                        !.status = 400]]
              ELSE admin' = [admin EXCEPT ![a] =
                      [IdleAdmin EXCEPT !.pc = "savingDef", !.name = name,
                                        !.uid = u, !.attack = attack,
                                        !.finalMaxSupply = finalMaxSupply,
                                        !.existing = e,
                                        !.doc = [existing EXCEPT !.currentSupply =
                                                    existing.currentSupply + 1]]]
       ELSE admin' = [admin EXCEPT ![a] =
                      [IdleAdmin EXCEPT !.pc = "savingCard", !.name = name,
                                        !.uid = u, !.attack = attack,
                                        !.finalMaxSupply = finalMaxSupply,
                                        !.cardToSave =
                                            [name |-> name,
                                             attack |-> attack,
                                             maxSupply |-> finalMaxSupply,
                                             currentSupply |-> 1,
                                             ownerId |-> NULL_OWNER,
                                             minted |-> FALSE]]]
    /\ UNCHANGED <<now, users, cards, claim, others>>

\* Faulty variant of AdminSaveDef: the maxSupply of the request is written
\* onto the definition and copied to the instance.
AdminSaveDefResubmitted(a) ==
    /\ admin[a].pc = "savingDef"
    /\ cards' = [cards EXCEPT ![admin[a].existing].currentSupply =
                                  admin[a].doc.currentSupply,
                              ![admin[a].existing].maxSupply =
                                  admin[a].finalMaxSupply]
    /\ admin' = [admin EXCEPT ![a].pc = "savingCard",
                              ![a].cardToSave =
                                  [name |-> admin[a].name,
                                   attack |-> admin[a].attack,
                                   maxSupply |-> admin[a].finalMaxSupply,
                                   currentSupply |-> admin[a].doc.currentSupply,
                                   ownerId |-> NULL_OWNER,
                                   minted |-> TRUE]]
    /\ UNCHANGED <<now, users, claim, started, others>>

\* await existingCardDefinition.save(): $set currentSupply on the record;
\* then the new instance is built: name, type, rarity, attack, defense and
\* artwork from the request, maxSupply and currentSupply from the in-memory
\* definition.
AdminSaveDef(a) ==
    /\ admin[a].pc = "savingDef"
    /\ cards' = [cards EXCEPT ![admin[a].existing].currentSupply =
                                  admin[a].doc.currentSupply]
    /\ admin' = [admin EXCEPT ![a].pc = "savingCard",
                              ![a].cardToSave =
                                  [name |-> admin[a].name,
                                   attack |-> admin[a].attack,
                                   maxSupply |-> admin[a].doc.maxSupply,
                                   currentSupply |-> admin[a].doc.currentSupply,
                                   ownerId |-> NULL_OWNER,
                                   minted |-> TRUE]]
    /\ UNCHANGED <<now, users, claim, started, others>>

\* await cardToSave.save(): the record is inserted; 201.
AdminSaveCard(a) ==
    /\ admin[a].pc = "savingCard"
    /\ cards' = Append(cards, admin[a].cardToSave)
    /\ admin' = [admin EXCEPT ![a].pc = "done", ![a].status = 201]
    /\ UNCHANGED <<now, users, claim, started, others>>

\* A storage call rejects: the catch block answers 500.
AdminFail(a) ==
    /\ admin[a].pc \in {"savingDef", "savingCard"}
    /\ admin' = [admin EXCEPT ![a].pc = "done", ![a].status = 500]
    /\ UNCHANGED <<now, users, cards, claim, started, others>>

(* ------------------ POST /api/admin/cards (name-unique model) ---------- *)

\* The card names of the requests to the name-unique route.
UniqueNames == {"Dragon", "Slime"}

\* Faulty variant of NameTaken: the schema without unique: true on name.
NameTakenNoIndex(name) == FALSE

\* name: { unique: true }: an insert of a name already stored is refused
\* with E11000.
NameTaken(name) == \E i \in 1..Len(cards) : cards[i].name = name

\* isAdmin of this snapshot answers 403 to every request that is not an
\* admin's, a session of nobody included; the handler does not run.
UniqueDenied(a, u) ==
    /\ admin[a].pc = "idle"
    /\ \A b \in AdminReqs : admin[b].pc = "idle" => a <= b
    /\ started < MaxRequests
    /\ ~IsAdmin(u)
    /\ started' = started + 1
    /\ admin' = [admin EXCEPT ![a] =
            [IdleAdmin EXCEPT !.pc = "done", !.uid = u, !.status = 403]]
    /\ UNCHANGED <<now, users, cards, claim, others>>

\* The request passed isAdmin: the card is built from the body, with
\* currentSupply 0, and its save is awaited.
UniqueStart(a, u, name, maxSupply) ==
    /\ admin[a].pc = "idle"
    /\ \A b \in AdminReqs : admin[b].pc = "idle" => a <= b
    /\ started < MaxRequests
    /\ IsAdmin(u)
    /\ started' = started + 1
    /\ admin' = [admin EXCEPT ![a] =
            [IdleAdmin EXCEPT !.pc = "inserting", !.uid = u, !.name = name,
                              !.finalMaxSupply = maxSupply,
                              !.cardToSave =
                                  [NoCard EXCEPT !.name = name,
                                                 !.maxSupply = maxSupply,
                                                 !.currentSupply = 0]]]
    /\ UNCHANGED <<now, users, cards, claim, others>>

\* await newCard.save() settles: inserted and 201, or refused by the unique
\* index on name and 409.
UniqueSave(a) ==
    /\ admin[a].pc = "inserting"
    /\ IF NameTaken(admin[a].name)
       THEN /\ cards' = cards
            /\ admin' = [admin EXCEPT ![a].pc = "done", ![a].status = 409]
       ELSE /\ cards' = Append(cards, admin[a].cardToSave)
            /\ admin' = [admin EXCEPT ![a].pc = "done", ![a].status = 201]
    /\ UNCHANGED <<now, users, claim, started, others>>

\* newCard.save() rejects for another reason: the catch block answers 500.
UniqueFail(a) ==
    /\ admin[a].pc = "inserting"
    /\ admin' = [admin EXCEPT ![a].pc = "done", ![a].status = 500]
    /\ UNCHANGED <<now, users, cards, claim, started, others>>

AdminReset(a) ==
    /\ admin[a].pc = "done"
    /\ admin' = [admin EXCEPT ![a] = IdleAdmin]
    /\ UNCHANGED <<now, users, cards, claim, started, others>>

(* ------------- POST /api/admin/cards: validation of the body ------------ *)

\* maxSupply !== undefined && maxSupply !== null
Supplied(x) == x.t \notin {"undefined", "null"}

\* The checks of the handler before its first storage call, in order: the
\* 400 answer of the first that fails, or status 0 (the handler goes on to
\* Card.findOne) with finalMaxSupply.
ValidateBody(b) ==
    IF \/ Falsy(b.name) \/ Falsy(b.type) \/ Falsy(b.attack) \/ Falsy(b.defense)
       \/ Falsy(b.characterImageUrl) \/ Falsy(b.backgroundImageUrl)
       \/ Falsy(b.rarity)
    THEN [status |-> 400, message |-> "required", finalMaxSupply |-> UNLIMITED]
    ELSE IF IsNaN(b.attack) \/ IsNaN(b.defense)
    THEN [status |-> 400, message |-> "numbers", finalMaxSupply |-> UNLIMITED]
    ELSE IF Supplied(b.maxSupply) /\ ParseInt(b.maxSupply).nan
    THEN [status |-> 400, message |-> "maxSupplyNumber",
          finalMaxSupply |-> UNLIMITED]
    ELSE IF Supplied(b.maxSupply) /\ ParseInt(b.maxSupply).n < -1
    THEN [status |-> 400, message |-> "maxSupplyNegative",
          finalMaxSupply |-> ParseInt(b.maxSupply).n]
    ELSE [status |-> 0, message |-> "",
          finalMaxSupply |-> IF Supplied(b.maxSupply)
                             THEN ParseInt(b.maxSupply).n ELSE UNLIMITED]

\* The handler runs its checks on the body received.
Validate ==
    /\ form.pc = "received"
    /\ LET v == ValidateBody(form.body)
       IN form' = [form EXCEPT !.pc = "validated", !.status = v.status,
                               !.message = v.message,
                               !.finalMaxSupply = v.finalMaxSupply]
    /\ UNCHANGED <<now, users, cards, claim, admin, started, version, login, chat>>

\* A body that passes every check, and one body for each check that fails.
GoodBody ==
    [name |-> Str("Dragon"), type |-> Str("Dragon"), attack |-> Num(7),
     defense |-> Num(7), characterImageUrl |-> Str("Dragon"),
     backgroundImageUrl |-> Str("Dragon"), rarity |-> Str("Dragon"),
     maxSupply |-> Num(2)]

SampleBodies ==
    {GoodBody,
     [GoodBody EXCEPT !.name = Undefined],
     [GoodBody EXCEPT !.attack = Num(0)],
     [GoodBody EXCEPT !.defense = Str("abc")],
     [GoodBody EXCEPT !.maxSupply = Str("abc")],
     [GoodBody EXCEPT !.maxSupply = Num(-2)]}

\* Faulty variant of AdminInvalid: the 400 is sent without `return`, and the
\* handler goes on to store the card.
AdminInvalidStored(a, u, b) ==
    /\ admin[a].pc = "idle"
    /\ \A k \in AdminReqs : admin[k].pc = "idle" => a <= k
    /\ started < MaxRequests
    /\ IsAdmin(u)
    /\ ValidateBody(b).status = 400
    /\ started' = started + 1
    /\ admin' = [admin EXCEPT ![a] =
            [IdleAdmin EXCEPT !.pc = "done", !.uid = u, !.status = 400]]
    /\ cards' = Append(cards, [NoCard EXCEPT !.name = "Dragon",
                                             !.currentSupply = 1])
    /\ UNCHANGED <<now, users, claim, others>>

\* The request passed the middleware and fails a check of the body: the
\* handler returns its 400 before the first storage call.
AdminInvalid(a, u, b) ==
    /\ admin[a].pc = "idle"
    /\ \A k \in AdminReqs : admin[k].pc = "idle" => a <= k
    /\ started < MaxRequests
    /\ IsAdmin(u)
    /\ ValidateBody(b).status = 400
    /\ started' = started + 1
    /\ admin' = [admin EXCEPT ![a] =
            [IdleAdmin EXCEPT !.pc = "done", !.uid = u, !.status = 400]]
    /\ UNCHANGED <<now, users, cards, claim, others>>

(* --------------------------- the users collection ----------------------- *)

\* User.findOne({ twitchId }): the documents that match
FindByTwitchId(t) == {d \in Users : users[d].exists /\ users[d].twitchId = t}

\* Faulty variant of DuplicateKey: the collection without the unique index.
DuplicateKeyNoIndex(t) == FALSE

\* twitchId: { unique: true }: an insert of a twitchId already stored is
\* refused with E11000.
DuplicateKey(t) == FindByTwitchId(t) # {}

\* The _id of the next inserted document.
FreshId == CHOOSE d \in Users : ~users[d].exists

\* currency of the document the login callback creates
LoginCurrency(v) == IF v = "v2" THEN STARTING_CURRENCY ELSE 0

\* currency: 0 of the document the chat handler creates
ChatCurrency(v) == 0

NewUser(t, n, currency) ==
    [exists |-> TRUE, twitchId |-> t, displayName |-> n, isAdmin |-> FALSE,
     currency |-> currency, lastPackClaimed |-> NULL_DATE, cards |-> <<>>]

(* ------------------- TwitchStrategy verify callback --------------------- *)

\* User.findOne resolves. Found: "v0" is done; "v1"/"v2" set the profile
\* fields on the document and save. Not found: the new document is built.
LoginFind(l, t, n) ==
    /\ login[l].pc = "idle"
    /\ \A k \in LoginReqs : login[k].pc = "idle" => l <= k
    /\ started < MaxRequests
    /\ started' = started + 1
    /\ IF FindByTwitchId(t) # {}
       THEN \E d \in FindByTwitchId(t) :
              login' = [login EXCEPT ![l] =
                  [IdleLogin EXCEPT
                      !.pc = IF version = "v0" THEN "done" ELSE "syncing",
                      !.twitchId = t, !.displayName = n, !.user = d,
                      !.doc = IF version = "v0" THEN users[d]
                              ELSE [users[d] EXCEPT !.displayName = n]]]
       ELSE login' = [login EXCEPT ![l] =
                  [IdleLogin EXCEPT
                      !.pc = "creating", !.twitchId = t, !.displayName = n,
                      !.newUser = NewUser(t, n, LoginCurrency(version))]]
    /\ UNCHANGED <<now, users, cards, claim, admin, version, chat, form>>

\* Faulty variant of LoginSync: the whole loaded document is written back.
LoginSyncWholeDocument(l) ==
    /\ login[l].pc = "syncing"
    /\ users' = [users EXCEPT ![login[l].user] = login[l].doc]
    /\ login' = [login EXCEPT ![l].pc = "done"]
    /\ UNCHANGED <<now, cards, claim, admin, started, version, chat, form>>

\* user.save() of an existing user: the modified paths only ($set displayName,
\* profileImageUrl and, in "v1", the tokens).
LoginSync(l) ==
    /\ login[l].pc = "syncing"
    /\ users' = [users EXCEPT
                    ![login[l].user].displayName = login[l].doc.displayName]
    /\ login' = [login EXCEPT ![l].pc = "done"]
    /\ UNCHANGED <<now, cards, claim, admin, started, version, chat, form>>

\* newUser.save(): inserted, or refused by the unique index: done(err).
LoginCreate(l) ==
    /\ login[l].pc = "creating"
    /\ IF DuplicateKey(login[l].twitchId)
       THEN /\ login' = [login EXCEPT ![l].pc = "done", ![l].err = "E11000"]
            /\ users' = users
       ELSE /\ \E d \in Users : ~users[d].exists
            /\ users' = [users EXCEPT ![FreshId] = login[l].newUser]
            /\ login' = [login EXCEPT ![l].pc = "done", ![l].user = FreshId,
                                      ![l].doc = login[l].newUser]
    /\ UNCHANGED <<now, cards, claim, admin, started, version, chat, form>>

\* A storage call rejects: done(err).
LoginFail(l) ==
    /\ login[l].pc \in {"syncing", "creating"}
    /\ login' = [login EXCEPT ![l].pc = "done", ![l].err = "storage"]
    /\ UNCHANGED <<now, users, cards, claim, admin, started, version, chat, form>>

LoginReset(l) ==
    /\ login[l].pc = "done"
    /\ login' = [login EXCEPT ![l] = IdleLogin]
    /\ UNCHANGED <<now, users, cards, claim, admin, started, version, chat, form>>

(* ----------------------- client.on('message') --------------------------- *)

\* Faulty variant of OwnerOf: the card is stored unowned.
OwnerOfNobody(user) == NULL_OWNER

\* ownerId: user.twitchId
OwnerOf(user) == user.twitchId

\* The command of the message, on the user document in hand:
\* the handler is finished, its reply computed from doc.
Evaluated(c, d, doc) ==
    [chat[c] EXCEPT !.pc = "done", !.user = d, !.doc = doc,
                    !.outcome = "evaluated"]

\* Faulty variant of CardsOwnedBy: the lookup without its filter.
CardsOfEveryone(t) == cards

\* Card.find({ ownerId: user.twitchId }): the records that match, in order
CardsOwnedBy(t) ==
    LET Owned(card) == card.ownerId = t IN SelectSeq(cards, Owned)

\* userCards.map(card => card.name)
CardNames(userCards) == [i \in 1..Len(userCards) |-> userCards[i].name]

\* User.findOne resolves for a message of t.
\* "v0": no user: the sender is told to link the account (to log in); a
\* user: the card of !addcard is built, the cards of !mycards are looked up.
\* "v1"/"v2": a user: the command is evaluated; no user: the new document is
\* built.
ChatFind(c, t, n, m) ==
    /\ chat[c].pc = "idle"
    /\ \A k \in ChatReqs : chat[k].pc = "idle" => c <= k
    /\ started < MaxRequests
    /\ m \in Messages(version)
    /\ started' = started + 1
    /\ LET arrived == [IdleChat EXCEPT !.twitchId = t, !.displayName = n,
                                       !.message = m]
       IN IF FindByTwitchId(t) # {}
          THEN \E d \in FindByTwitchId(t) :
                 IF version = "v0" /\ m = "!mycards"
                 THEN chat' = [chat EXCEPT ![c] =
                          [arrived EXCEPT !.pc = "listing", !.user = d,
                                          !.doc = users[d]]]
                 ELSE IF version = "v0"
                 THEN \E name \in ChatNames :
                        chat' = [chat EXCEPT ![c] =
                          [arrived EXCEPT
                              !.pc = "savingCard", !.user = d, !.doc = users[d],
                              !.newCard = [name |-> name,
                                           attack |-> 7,
                                           maxSupply |-> UNLIMITED,
                                           currentSupply |-> 0,
                                           ownerId |-> OwnerOf(users[d]),
                                           minted |-> FALSE]]]
                 ELSE chat' = [chat EXCEPT ![c] =
                          [arrived EXCEPT !.pc = "done", !.user = d,
                                          !.doc = users[d],
                                          !.outcome = "evaluated"]]
          ELSE IF version = "v0"
               THEN chat' = [chat EXCEPT ![c] =
                          [arrived EXCEPT !.pc = "done", !.outcome = "unlinked"]]
               ELSE chat' = [chat EXCEPT ![c] =
                          [arrived EXCEPT
                              !.pc = "creating",
                              !.newUser = NewUser(t, n, ChatCurrency(version))]]
    /\ UNCHANGED <<now, users, cards, claim, admin, version, login, form>>

\* Faulty variant of SendsWelcome: the welcome is sent after the catch block.
SendsWelcomeAlways(saved) == TRUE

\* client.say(channel, `Welcome to MaelMon, ...`) follows newUser.save()
\* inside its try: it runs when the save resolved, and not when it rejected.
SendsWelcome(saved) == saved

\* Faulty variant of ChatCreate: the duplicate-key error ends the handler in
\* every snapshot.
ChatCreateUncaught(c) ==
    /\ chat[c].pc = "creating"
    /\ IF DuplicateKey(chat[c].twitchId)
       THEN /\ chat' = [chat EXCEPT ![c].pc = "done", ![c].outcome = "aborted"]
            /\ users' = users
       ELSE /\ \E d \in Users : ~users[d].exists
            /\ users' = [users EXCEPT ![FreshId] = chat[c].newUser]
            /\ chat' = [chat EXCEPT ![c] =
                            Evaluated(c, FreshId, chat[c].newUser)]
    /\ UNCHANGED <<now, cards, claim, admin, started, version, login, form>>

\* newUser.save(): inserted, the welcome is sent and the command is
\* evaluated on the new document; refused by the unique index: "v1" catches code 11000 and
\* fetches the user again, "v2" has no catch and the handler ends there.
ChatCreate(c) ==
    /\ chat[c].pc = "creating"
    /\ IF DuplicateKey(chat[c].twitchId)
       THEN /\ chat' = IF version = "v1"
                       THEN [chat EXCEPT ![c].pc = "refetching",
                                         ![c].welcomed = SendsWelcome(FALSE)]
                       ELSE [chat EXCEPT ![c].pc = "done",
                                         ![c].outcome = "aborted",
                                         ![c].welcomed = SendsWelcome(FALSE)]
            /\ users' = users
       ELSE /\ \E d \in Users : ~users[d].exists
            /\ users' = [users EXCEPT ![FreshId] = chat[c].newUser]
            /\ chat' = [chat EXCEPT ![c] =
                            [Evaluated(c, FreshId, chat[c].newUser)
                                EXCEPT !.welcomed = SendsWelcome(TRUE)]]
    /\ UNCHANGED <<now, cards, claim, admin, started, version, login, form>>

\* The second User.findOne (after the duplicate-key error) resolves.
ChatRefetch(c) ==
    /\ chat[c].pc = "refetching"
    /\ IF FindByTwitchId(chat[c].twitchId) # {}
       THEN \E d \in FindByTwitchId(chat[c].twitchId) :
              chat' = [chat EXCEPT ![c] = Evaluated(c, d, users[d])]
       ELSE chat' = [chat EXCEPT ![c].pc = "done", ![c].outcome = "missing"]
    /\ UNCHANGED <<now, users, cards, claim, admin, started, version, login, form>>

\* await newCard.save() of !addcard: the record is inserted.
ChatSaveCard(c) ==
    /\ chat[c].pc = "savingCard"
    /\ cards' = Append(cards, chat[c].newCard)
    /\ chat' = [chat EXCEPT ![c].pc = "done", ![c].outcome = "added"]
    /\ UNCHANGED <<now, users, claim, admin, started, version, login, form>>

\* await Card.find of !mycards resolves: the reply lists the names, or says
\* that the sender has no cards yet.
ChatList(c) ==
    /\ chat[c].pc = "listing"
    /\ LET userCards == CardsOwnedBy(chat[c].doc.twitchId) IN
       chat' = [chat EXCEPT ![c].pc = "done",
                            ![c].listed = CardNames(userCards),
                            ![c].outcome = IF Len(userCards) > 0 THEN "listed"
                                                                 ELSE "nocards"]
    /\ UNCHANGED <<now, users, cards, claim, admin, started, version, login, form>>

\* A storage call rejects. "v0" and "v1" wrap the handler in try/catch: the
\* error is logged, no command is evaluated. "v2" has no catch: the
\* rejection leaves the async handler.
ChatFail(c) ==
    /\ chat[c].pc \in {"creating", "refetching", "savingCard", "listing"}
    /\ chat' = [chat EXCEPT ![c].pc = "done",
                            ![c].outcome = IF version = "v2" THEN "aborted"
                                                             ELSE "failed"]
    /\ UNCHANGED <<now, users, cards, claim, admin, started, version, login, form>>

ChatReset(c) ==
    /\ chat[c].pc = "done"
    /\ chat' = [chat EXCEPT ![c] = IdleChat]
    /\ UNCHANGED <<now, users, cards, claim, admin, started, version, login, form>>

(* ------------------------------ the system ----------------------------- *)

Next ==
    \/ Tick
    \/ \E p \in ClaimReqs, u \in Users : ClaimStart(p, u)
    \/ \E p \in ClaimReqs : ClaimFind(p)
    \/ \E p \in ClaimReqs : ClaimFindFail(p)
    \/ \E p \in ClaimReqs : ClaimSave(p)
    \/ \E p \in ClaimReqs : ClaimSaveFail(p)
    \/ \E p \in ClaimReqs : ClaimReset(p)
    \/ \E a \in AdminReqs, u \in Users, n \in Names, m \in MaxSupplyInputs :
          AdminStart(a, u, n, m, 7)
    \/ \E a \in AdminReqs : AdminSaveDef(a)
    \/ \E a \in AdminReqs : AdminSaveCard(a)
    \/ \E a \in AdminReqs : AdminFail(a)
    \/ \E a \in AdminReqs : AdminReset(a)

Spec == Init /\ [][Next]_vars

\* The accounts: logins, chat messages and claims on a users collection that
\* starts empty, over a store that holds one unlimited card.
SeedCard ==
    [name |-> "Dragon", attack |-> 7, maxSupply |-> UNLIMITED,
     currentSupply |-> 1, ownerId |-> NULL_OWNER, minted |-> FALSE]

AccountsInit ==
    /\ now = 0
    /\ users = [u \in Users |-> NoUserDoc]
    /\ cards = <<SeedCard>>
    /\ claim = [p \in ClaimReqs |-> IdleClaim]
    /\ admin = [a \in AdminReqs |-> IdleAdmin]
    /\ started = 0
    /\ version \in Versions
    /\ login = [l \in LoginReqs |-> IdleLogin]
    /\ chat = [c \in ChatReqs |-> IdleChat]
    /\ form = IdleForm

AccountsNext ==
    \/ \E l \in LoginReqs, t \in TwitchIds, n \in DisplayNames : LoginFind(l, t, n)
    \/ \E l \in LoginReqs : LoginSync(l)
    \/ \E l \in LoginReqs : LoginCreate(l)
    \/ \E l \in LoginReqs : LoginFail(l)
    \/ \E l \in LoginReqs : LoginReset(l)
    \/ \E c \in ChatReqs, t \in TwitchIds, n \in DisplayNames,
          m \in {"!addcard", "!mycards", "!currency"} : ChatFind(c, t, n, m)
    \/ \E c \in ChatReqs : ChatList(c)
    \/ \E c \in ChatReqs : ChatCreate(c)
    \/ \E c \in ChatReqs : ChatRefetch(c)
    \/ \E c \in ChatReqs : ChatSaveCard(c)
    \/ \E c \in ChatReqs : ChatFail(c)
    \/ \E c \in ChatReqs : ChatReset(c)
    \/ \E p \in ClaimReqs, u \in Users : ClaimStart(p, u)
    \/ \E p \in ClaimReqs, u \in Users : ClaimUnauthenticated(p, u)
    \/ \E p \in ClaimReqs : ClaimFind(p)
    \/ \E p \in ClaimReqs : ClaimFindFail(p)
    \/ \E p \in ClaimReqs : ClaimSave(p)
    \/ \E p \in ClaimReqs : ClaimSaveFail(p)
    \/ \E p \in ClaimReqs : ClaimReset(p)

AccountsSpec == AccountsInit /\ [][AccountsNext]_vars

\* The validation of one add-card body, for every body of the model.
FormInit ==
    /\ now = 0
    /\ users = [u \in Users |-> NoUserDoc]
    /\ cards = <<>>
    /\ claim = [p \in ClaimReqs |-> IdleClaim]
    /\ admin = [a \in AdminReqs |-> IdleAdmin]
    /\ started = 0
    /\ version = "v0"
    /\ login = [l \in LoginReqs |-> IdleLogin]
    /\ chat = [c \in ChatReqs |-> IdleChat]
    /\ \E b \in Bodies : form = [IdleForm EXCEPT !.pc = "received", !.body = b]

FormNext == Validate

FormSpec == FormInit /\ [][FormNext]_vars

\* The add-card route alone: sessions of an admin, of a user who is no
\* admin and of nobody; two values of the descriptive fields.
Attacks == {7, 9}

SupplyInit ==
    /\ now = 0
    /\ users = [u \in Users |->
                  IF u = "u1"
                  THEN [NoUserDoc EXCEPT !.exists = TRUE, !.twitchId = "t1",
                                         !.displayName = "Lucas6412TM",
                                         !.isAdmin = TRUE]
                  ELSE [NoUserDoc EXCEPT !.exists = TRUE, !.twitchId = "t2",
                                         !.displayName = "Mael"]]
    /\ cards = <<>>
    /\ claim = [p \in ClaimReqs |-> IdleClaim]
    /\ admin = [a \in AdminReqs |-> IdleAdmin]
    /\ started = 0
    /\ version = "v0"
    /\ login = [l \in LoginReqs |-> IdleLogin]
    /\ chat = [c \in ChatReqs |-> IdleChat]
    /\ form = IdleForm

SupplyNext ==
    \/ \E a \in AdminReqs, u \in Sessions : AdminDenied(a, u)
    \/ \E a \in AdminReqs, u \in Sessions : AdminSimulated(a, u)
    \/ \E a \in AdminReqs, u \in Sessions, b \in SampleBodies :
          AdminInvalid(a, u, b)
    \/ \E a \in AdminReqs, u \in Sessions, n \in Names, m \in MaxSupplyInputs,
          k \in Attacks : AdminStart(a, u, n, m, k)
    \/ \E a \in AdminReqs : AdminSaveDef(a)
    \/ \E a \in AdminReqs : AdminSaveCard(a)
    \/ \E a \in AdminReqs : AdminFail(a)
    \/ \E a \in AdminReqs : AdminReset(a)

SupplySpec == SupplyInit /\ [][SupplyNext]_vars

\* The add-card route of the name-unique model alone, on an empty store.
UniqueInit == SupplyInit

UniqueNext ==
    \/ \E a \in AdminReqs, u \in Sessions : UniqueDenied(a, u)
    \/ \E a \in AdminReqs, u \in Sessions, n \in UniqueNames,
          m \in 0..MaxSupplyInput : UniqueStart(a, u, n, m)
    \/ \E a \in AdminReqs : UniqueSave(a)
    \/ \E a \in AdminReqs : UniqueFail(a)
    \/ \E a \in AdminReqs : AdminReset(a)

UniqueSpec == UniqueInit /\ [][UniqueNext]_vars

\* The claim route alone, over an empty store or a store of two cards of
\* different rarity, with one user and one session that resolves to no
\* user. Each storage call completes or fails: the continuation of a
\* settled promise runs.
PackStore ==
    <<[NoCard EXCEPT !.name = "Dragon", !.attack = 9, !.currentSupply = 1],
      [NoCard EXCEPT !.name = "Slime", !.attack = 7, !.currentSupply = 1]>>

PackInit ==
    /\ now = 0
    /\ users = [u \in Users |->
                  IF u = "u1"
                  THEN [NoUserDoc EXCEPT !.exists = TRUE, !.twitchId = "t1",
                                         !.displayName = "Mael",
                                         !.currency = STARTING_CURRENCY]
                  ELSE NoUserDoc]
    /\ cards \in {<<>>, PackStore}
    /\ claim = [p \in ClaimReqs |-> IdleClaim]
    /\ admin = [a \in AdminReqs |-> IdleAdmin]
    /\ started = 0
    /\ version = "v2"
    /\ login = [l \in LoginReqs |-> IdleLogin]
    /\ chat = [c \in ChatReqs |-> IdleChat]
    /\ form = IdleForm

PackNext ==
    \/ Tick
    \/ \E p \in ClaimReqs, u \in Users : ClaimStart(p, u)
    \/ \E p \in ClaimReqs, u \in Users : ClaimUnauthenticated(p, u)
    \/ \E p \in ClaimReqs : ClaimFind(p)
    \/ \E p \in ClaimReqs : ClaimFindFail(p)
    \/ \E p \in ClaimReqs : ClaimSave(p)
    \/ \E p \in ClaimReqs : ClaimSaveFail(p)
    \/ \E p \in ClaimReqs : ClaimReset(p)

PackSpec ==
    /\ PackInit
    /\ [][PackNext]_vars
    /\ \A p \in ClaimReqs :
          /\ WF_vars(ClaimFind(p) \/ ClaimFindFail(p))
          /\ WF_vars(ClaimSave(p) \/ ClaimSaveFail(p))

(* ------------------------------ the claims ----------------------------- *)

TwentyFourHours == 24 * 60 * 60 * 1000

\* A request slot p starts a request in this step.
Starts(p) == claim[p].pc = "idle" /\ claim'[p].pc # "idle"

\* Two requests that were in flight at the same time.
Concurrent(p, q) == q \in claim[p].peers \/ p \in claim[q].peers

\* The spec's eligibility: unlimited, or currentSupply < maxSupply.
Eligible(c) == c.maxSupply = -1 \/ c.currentSupply < c.maxSupply

\* The spec's exhausted definition: capped and currentSupply = maxSupply.
Exhausted(c) == c.maxSupply # -1 /\ c.currentSupply = c.maxSupply

\* C1: in every reachable state every card record whose maxSupply is not -1
\* has currentSupply <= maxSupply.
C1_SupplyCap ==
    \A i \in 1..Len(cards) :
        cards[i].maxSupply # -1 => cards[i].currentSupply <= cards[i].maxSupply

\* C2 as stated: of two claim requests of one user with the same request
\* time, overlapping or not, exactly one is granted: never both.
C2_Original ==
    \A p, q \in ClaimReqs :
        (/\ p # q
         /\ claim[p].uid = claim[q].uid
         /\ claim[p].now = claim[q].now)
        => ~(claim[p].status = 200 /\ claim[q].status = 200)

\* C2 amended: a claim request that loads the user after a claim of the same
\* user with the same request time has been granted and saved (the stored
\* lastPackClaimed being that request's timestamp) is rejected as on cooldown.
C2_Serialized ==
    [][\A q \in ClaimReqs :
        (/\ Starts(q)
         /\ \E p \in ClaimReqs :
                /\ p # q
                /\ claim[p].pc = "done" /\ claim[p].status = 200
                /\ claim[p].uid = claim'[q].uid
                /\ claim[p].now = now
                /\ users[claim[p].uid].lastPackClaimed = claim[p].now)
        => (/\ claim'[q].pc = "done"
            /\ claim'[q].status = 400
            /\ claim'[q].message = "cooldown")]_vars

C2_Witness ==
    \E p, q \in ClaimReqs :
        /\ p # q
        /\ claim[p].pc = "done" /\ claim[p].status = 200
        /\ claim[q].pc = "done" /\ claim[q].status = 400
        /\ claim[q].uid = claim[p].uid
        /\ claim[q].now = claim[p].now
        /\ ~Concurrent(p, q)

\* C3: of two concurrent claims by different users that both select the same
\* capped definition with exactly one unit of supply remaining, not both are
\* granted the card.
C3_Original ==
    \A p, q \in ClaimReqs :
        (/\ p # q
         /\ Concurrent(p, q)
         /\ claim[p].uid # claim[q].uid
         /\ claim[p].card # 0 /\ claim[p].card = claim[q].card
         /\ claim[p].allCards[claim[p].card].maxSupply # -1
         /\ claim[p].allCards[claim[p].card].currentSupply
                = claim[p].allCards[claim[p].card].maxSupply - 1
         /\ claim[q].allCards[claim[q].card] = claim[p].allCards[claim[p].card])
        => ~(claim[p].status = 200 /\ claim[q].status = 200)

\* C4: the card returned by a successful claim is never an exhausted
\* definition (capped, with currentSupply = maxSupply at selection time).
C4_Original ==
    \A p \in ClaimReqs :
        claim[p].status = 200 => ~Exhausted(claim[p].allCards[claim[p].card])

\* C5: a claim that finds a non-empty store whose every definition is
\* exhausted does not go on to grant a card: it mutates nothing and its
\* answer is the no-cards error.
C5_Original ==
    \A p \in ClaimReqs :
        (/\ claim[p].allCards # <<>>
         /\ \A i \in 1..Len(claim[p].allCards) : Exhausted(claim[p].allCards[i]))
        => (/\ claim[p].pc # "saving"
            /\ (claim[p].pc = "done" => claim[p].message = "nocards"))

\* C6: every successful claim increases the currentSupply of the chosen
\* card record by exactly 1.
C6_Original ==
    [][\A p \in ClaimReqs :
        (claim[p].pc = "saving" /\ claim'[p].status = 200)
        => cards'[claim[p].card].currentSupply
               = cards[claim[p].card].currentSupply + 1]_vars

\* C7: a claim request of a user whose lastPackClaimed is non-null and less
\* than 24 hours before the request time is answered 400 (cooldown), and the
\* step leaves every user record and every card record unchanged.
C7_CooldownRejects ==
    [][\A p \in ClaimReqs :
        (/\ Starts(p)
         /\ users[claim'[p].uid].lastPackClaimed # -1
         /\ now - users[claim'[p].uid].lastPackClaimed < TwentyFourHours)
        => (/\ claim'[p].pc = "done"
            /\ claim'[p].status = 400
            /\ claim'[p].message = "cooldown"
            /\ users' = users
            /\ cards' = cards)]_vars

\* A request rejected one hour after the claim that stamped the user.
C7_Witness ==
    \E p \in ClaimReqs :
        /\ claim[p].pc = "done" /\ claim[p].status = 400
        /\ claim[p].now - claim[p].loaded.lastPackClaimed = HOUR_MS
        /\ users[claim[p].uid] = claim[p].loaded

C9_StampOnlyOnSuccess ==
    [][/\ \A u \in Users :
            users'[u].lastPackClaimed # users[u].lastPackClaimed
            => \E p \in ClaimReqs :
                  /\ claim[p].pc = "saving" /\ claim[p].uid = u
                  /\ claim'[p].status = 200
       /\ \A p \in ClaimReqs :
            (/\ claim[p].pc \in {"finding", "saving"}
             /\ claim'[p].pc = "done"
             /\ claim'[p].status # 200)
            => users' = users]_vars

\* A claim that chose a card and then failed on save, its user still
\* unstamped.
C9_Witness ==
    \E p \in ClaimReqs :
        /\ claim[p].pc = "done" /\ claim[p].message = "error"
        /\ claim[p].card # 0
        /\ users[claim[p].uid].lastPackClaimed = -1

\* C10: a claim of a user whose lastPackClaimed is null passes the cooldown
\* check; against a non-empty store it selects one of the cards of the store
\* as read; and unless a storage call fails it is granted (200) with the
\* persisted lastPackClaimed equal to the timestamp taken at its start.
C10_FirstClaim ==
    [][\A p \in ClaimReqs :
        /\ (Starts(p) /\ users[claim'[p].uid].lastPackClaimed = -1)
           => claim'[p].pc = "finding"
        /\ (/\ claim[p].pc = "finding" /\ claim'[p].pc # "finding"
            /\ claim[p].loaded.lastPackClaimed = -1
            /\ Len(cards) > 0
            /\ claim'[p].message # "error")
           => (/\ claim'[p].pc = "saving"
               /\ claim'[p].allCards = cards
               /\ claim'[p].card \in 1..Len(cards))
        /\ (/\ claim[p].pc = "saving" /\ claim'[p].pc # "saving"
            /\ claim[p].loaded.lastPackClaimed = -1
            /\ claim'[p].message # "error")
           => (/\ claim'[p].status = 200
               /\ claim'[p].card = claim[p].card
               /\ claim'[p].allCards = claim[p].allCards
               /\ users'[claim[p].uid].lastPackClaimed = claim[p].now)]_vars

\* A granted first claim whose request started before the clock moved on.
C10_Witness ==
    \E p \in ClaimReqs :
        /\ claim[p].pc = "done" /\ claim[p].status = 200
        /\ claim[p].loaded.lastPackClaimed = -1
        /\ users[claim[p].uid].lastPackClaimed = claim[p].now
        /\ claim[p].now < now

\* C11: every card granted or created for a requesting user is owned by that
\* user: a step that changes an inventory is the granted save of a claim of
\* the owner of that inventory, the entry it touches is the card that claim
\* selected, and no other inventory changes; and the record a chat !addcard
\* inserts has ownerId equal to the twitchId of the sender of the message.
C11_OwnedByRequester ==
    [][/\ \A u \in Users :
            users'[u].cards # users[u].cards
            => \E p \in ClaimReqs :
                  /\ claim[p].pc = "saving" /\ claim[p].uid = u
                  /\ claim'[p].status = 200
                  /\ \A v \in Users \ {u} : users'[v].cards = users[v].cards
                  /\ \E i \in 1..Len(users'[u].cards) :
                        /\ users'[u].cards[i].cardId = claim[p].card
                        /\ \A j \in 1..Len(users[u].cards) :
                              j # i => users'[u].cards[j] = users[u].cards[j]
       /\ \A c \in ChatReqs :
            (chat[c].pc = "savingCard" /\ chat'[c].outcome = "added")
            => (/\ Len(cards') = Len(cards) + 1
                /\ cards'[Len(cards')].ownerId = chat[c].twitchId
                /\ \A i \in 1..Len(cards) : cards'[i] = cards[i])]_vars

\* A user with a granted card in the inventory, and a record added through
\* !addcard by a sender.
C11_Witness ==
    \E c \in ChatReqs, u \in Users :
        /\ chat[c].pc = "done" /\ chat[c].outcome = "added"
        /\ cards[Len(cards)].ownerId = chat[c].twitchId
        /\ users[u].exists /\ users[u].cards # <<>>

\* The card records of a triple, and the first of them (the record created
\* with the definition).
Records(name) == {i \in 1..Len(cards) : cards[i].name = name}
FirstRecord(name) == CHOOSE i \in Records(name) : \A j \in Records(name) : i <= j

\* C12: whenever no add-card request is between its writes, for every triple
\* that has records the currentSupply stored on its definition record equals
\* the number of records of the triple.
C12_Original ==
    (\A a \in AdminReqs : admin[a].pc \notin {"savingDef", "savingCard"})
    => \A name \in Names :
          Records(name) # {}
          => cards[FirstRecord(name)].currentSupply = Cardinality(Records(name))

\* C13: a request that matched no definition and is answered 201 has created
\* exactly one record, with the submitted maxSupply and currentSupply 1; a
\* request that matched a non-exhausted definition (a restock) increases the
\* stored currentSupply of that definition by exactly 1 when it saves it, and
\* its 201 creates exactly one more record.
C13_Original ==
    [][\A a \in AdminReqs :
        /\ (/\ admin[a].pc = "savingCard" /\ admin'[a].status = 201
            /\ admin[a].existing = 0)
           => (/\ Len(cards') = Len(cards) + 1
               /\ cards'[Len(cards')].maxSupply = admin[a].finalMaxSupply
               /\ cards'[Len(cards')].currentSupply = 1
               /\ \A i \in 1..Len(cards) : cards'[i] = cards[i])
        /\ (admin[a].pc = "savingDef" /\ admin'[a].pc = "savingCard")
           => (/\ Len(cards') = Len(cards)
               /\ cards'[admin[a].existing].currentSupply
                      = cards[admin[a].existing].currentSupply + 1)
        /\ (/\ admin[a].pc = "savingCard" /\ admin'[a].status = 201
            /\ admin[a].existing # 0)
           => (/\ Len(cards') = Len(cards) + 1
               /\ \A i \in 1..Len(cards) : cards'[i] = cards[i])]_vars

\* A required field that is absent (or an empty string).
Missing(x) == x.t \in {"undefined", "null"} \/ x = Str("")

\* A number, or a string that is a numeral.
Numeric(x) == x.t = "number" \/ (x.t = "string" /\ x.s \in {"7", "-2"})

\* The number a numeric value stands for.
ValueOf(x) == IF x.t = "number" THEN x.n ELSE IF x.s = "7" THEN 7 ELSE -2

\* C14: a validated body is rejected (400) if and only if a required field
\* is missing, attack or defense is not numeric, or a supplied maxSupply is
\* not numeric or is less than -1; so a body with attack or defense 0 and
\* everything else valid is accepted.
C14_Original ==
    form.pc = "validated"
    => LET b == form.body IN
       (form.status = 400)
       <=> (\/ Missing(b.name) \/ Missing(b.type) \/ Missing(b.attack)
            \/ Missing(b.defense) \/ Missing(b.characterImageUrl)
            \/ Missing(b.backgroundImageUrl) \/ Missing(b.rarity)
            \/ ~Numeric(b.attack) \/ ~Numeric(b.defense)
            \/ (/\ ~Missing(b.maxSupply)
                /\ (~Numeric(b.maxSupply) \/ ValueOf(b.maxSupply) < -1)))

\* C15: in every reachable state at most one user record has a given
\* twitchId, whatever the interleaving of login callbacks and chat handlers
\* that find-or-create the identity.
C15_OnePerTwitchId ==
    \A d, e \in Users :
        (/\ users[d].exists /\ users[e].exists
         /\ users[d].twitchId = users[e].twitchId)
        => d = e

\* A login callback and a chat handler that both found the identity unseen
\* and both built a new user for it, both finished; the identity is stored.
C15_Witness ==
    \E l \in LoginReqs, c \in ChatReqs :
        /\ login[l].pc = "done" /\ chat[c].pc = "done"
        /\ login[l].newUser.exists /\ chat[c].newUser.exists
        /\ login[l].twitchId = chat[c].twitchId
        /\ FindByTwitchId(login[l].twitchId) # {}

\* C16: in the snapshot whose chat handler catches the duplicate-key error
\* ("v1"), a handler that found no record for the sender can always take its
\* next step, and once it has finished without a storage failure a record
\* with the sender's twitchId is stored and the command has been evaluated on
\* a document of that record; also when its own insert was refused as a
\* duplicate.
C16_ChatRegisters ==
    \A c \in ChatReqs :
        version = "v1"
        => /\ chat[c].pc = "creating" => ENABLED ChatCreate(c)
           /\ chat[c].pc = "refetching" => ENABLED ChatRefetch(c)
           /\ (/\ chat[c].pc = "done"
               /\ chat[c].newUser.exists
               /\ chat[c].outcome # "failed")
              => (/\ chat[c].outcome = "evaluated"
                  /\ chat[c].user \in FindByTwitchId(chat[c].twitchId)
                  /\ chat[c].doc.exists
                  /\ chat[c].doc.twitchId = chat[c].twitchId)

\* A handler that built a new user, lost the creation race and evaluated the
\* command on the record of the winner.
C16_Witness ==
    \E c \in ChatReqs :
        /\ version = "v1"
        /\ chat[c].pc = "done" /\ chat[c].outcome = "evaluated"
        /\ chat[c].newUser.exists
        /\ chat[c].doc # chat[c].newUser
        /\ users[chat[c].user] = chat[c].doc

\* The fields of a user record that only a claim may change.
GameFields(doc) ==
    <<doc.currency, doc.isAdmin, doc.lastPackClaimed, doc.cards>>

\* C17: a step that changes the currency, the isAdmin flag, lastPackClaimed
\* or the inventory of an existing user is the granted save of a claim of
\* that user; so every step of a login callback (the profile sync of an
\* existing user included) and of a chat handler leaves these fields of
\* every existing user as they were.
C17_OnlyClaimsChangeGameFields ==
    [][/\ \A u \in Users :
            (users[u].exists /\ GameFields(users'[u]) # GameFields(users[u]))
            => \E p \in ClaimReqs :
                  /\ claim[p].pc = "saving" /\ claim[p].uid = u
                  /\ claim'[p].status = 200
       /\ (login' # login \/ chat' # chat)
            => \A u \in Users :
                  users[u].exists
                  => (users'[u].exists /\ GameFields(users'[u]) = GameFields(users[u]))
      ]_vars

\* A profile sync saved for a user whose claim was saved after the login
\* callback had read the record: the new display name and the claim's
\* currency are both stored.
C17_Witness ==
    \E l \in LoginReqs :
        /\ version # "v0"
        /\ login[l].pc = "done" /\ login[l].err = ""
        /\ ~login[l].newUser.exists
        /\ users[login[l].user].displayName = login[l].displayName
        /\ users[login[l].user].currency # login[l].doc.currency
        /\ users[login[l].user].cards # <<>>

\* C18: within one server version, a user record inserted by a login callback
\* and a user record inserted by a chat handler start with the same currency.
C18_Original ==
    \A l \in LoginReqs, c \in ChatReqs :
        (/\ login[l].pc = "done" /\ login[l].err = ""
         /\ login[l].newUser.exists
         /\ chat[c].pc = "done" /\ chat[c].outcome = "evaluated"
         /\ chat[c].newUser.exists /\ chat[c].doc = chat[c].newUser)
        => login[l].newUser.currency = chat[c].newUser.currency

\* C19: a claim request whose session resolves to no user record is answered
\* 401 in the step it arrives, without reaching the cooldown check or the
\* card lookup, and the step changes no user record and no card record.
C19_Unauthenticated ==
    [][\A p \in ClaimReqs :
        (Starts(p) /\ ~users[claim'[p].uid].exists)
        => (/\ claim'[p].pc = "done"
            /\ claim'[p].status = 401
            /\ claim'[p].message = "unauthenticated"
            /\ users' = users
            /\ cards' = cards)]_vars

\* A request answered 401 for an id that is no user, while another user is
\* registered.
C19_Witness ==
    \E p \in ClaimReqs, u \in Users :
        /\ claim[p].pc = "done" /\ claim[p].status = 401
        /\ ~users[claim[p].uid].exists
        /\ users[u].exists

\* 24 hours minus the elapsed time, in whole hours and whole minutes.
RemainingTime(elapsed) ==
    LET left == TwentyFourHours - elapsed IN
    [hours |-> left \div HOUR_MS, minutes |-> (left % HOUR_MS) \div (60 * 1000)]

\* C20: the response of a claim rejected for cooldown carries the remaining
\* time: 24 hours minus the time since lastPackClaimed, in whole hours and
\* minutes (23 hours 0 minutes for a claim one hour after the previous one).
C20_Original ==
    \A p \in ClaimReqs :
        (claim[p].pc = "done" /\ claim[p].message = "cooldown")
        => (/\ "remaining" \in DOMAIN ResponseBody(claim[p])
            /\ ResponseBody(claim[p]).remaining
                  = RemainingTime(claim[p].now - claim[p].loaded.lastPackClaimed))

(* C21: no failure inside the chat handler escapes it: every storage failure,
   the duplicate-key rejection included, is caught by the handler, so no chat
   message ends as an unhandled rejection (outcome "aborted"). *)
C21_Original ==
    \A c \in ChatReqs : chat[c].outcome # "aborted"

(* C22: every claim request eventually receives exactly one response,
   provided each storage call it awaits completes or fails: a request is
   finished exactly when it holds a response, the response is one of the
   four of the handler (or the 401 of the middleware), a response once sent
   is never replaced, and a request waiting for a storage call is
   eventually finished. *)
C22_ExactlyOneResponse ==
    /\ [](\A p \in ClaimReqs :
            /\ (claim[p].pc = "done") <=> (claim[p].status # 0)
            /\ claim[p].pc = "done"
               => <<claim[p].status, claim[p].message>> \in
                     {<<200, "claimed">>, <<400, "cooldown">>,
                      <<500, "nocards">>, <<500, "error">>,
                      <<401, "unauthenticated">>})
    /\ [][\A p \in ClaimReqs :
            claim[p].status # 0
            => \/ /\ claim'[p].status = claim[p].status
                  /\ claim'[p].message = claim[p].message
               \/ claim'[p] = IdleClaim]_vars
    /\ \A p \in ClaimReqs :
          (claim[p].pc \in {"finding", "saving"}) ~> (claim[p].pc = "done")

\* Two requests answered, one granted after both storage calls and one
\* refused by the cooldown.
C22_Witness ==
    \E p, q \in ClaimReqs :
        /\ claim[p].pc = "done" /\ claim[p].status = 200
        /\ claim[q].pc = "done" /\ claim[q].status = 400

\* The rarity of the (name, type, rarity) triple a card name stands for.
RarityOf(name) == IF name = "Dragon" THEN "Legendary" ELSE "Common"

(* C23: the allocation draws one index in [0, n) of the candidate list: the
   card chosen is a member of the list the request read, and while the
   request waits for the list every member of it, whatever its rarity, is a
   possible outcome of the draw. *)
C23_AnyCandidate ==
    \A p \in ClaimReqs :
        /\ claim[p].pc = "saving"
           => /\ claim[p].card \in 1..Len(claim[p].allCards)
              /\ claim[p].allCards = cards
        /\ (claim[p].pc = "finding" /\ Len(cards) > 0)
           => \A i \in 1..Len(cards) :
                 ENABLED (ClaimFind(p) /\ claim'[p].card = i)

\* Two requests drew from the same list and received cards of different
\* rarity.
C23_Witness ==
    \E p, q \in ClaimReqs :
        /\ claim[p].pc = "saving" /\ claim[q].pc = "saving"
        /\ claim[p].allCards = claim[q].allCards
        /\ RarityOf(claim[p].allCards[claim[p].card].name)
              # RarityOf(claim[q].allCards[claim[q].card].name)

(* C24: the record created by a restock is a snapshot of its definition:
   its descriptive fields (here attack) and its maxSupply equal those stored
   on the definition it was minted from, and its currentSupply equals the
   currentSupply of the definition immediately after the increment. *)
C24_Original ==
    [][\A a \in AdminReqs :
        (/\ admin[a].pc = "savingCard" /\ admin'[a].status = 201
         /\ admin[a].existing # 0)
        => LET definition == cards[admin[a].existing]
               instance == cards'[Len(cards')]
           IN /\ instance.name = definition.name
              /\ instance.attack = definition.attack
              /\ instance.maxSupply = definition.maxSupply
              /\ instance.currentSupply = admin[a].doc.currentSupply]_vars

(* C25: a record created by a restock is never modified afterwards: later
   add-card requests of the same triple increment only the original
   definition, never a minted instance. *)
C25_Original ==
    [][\A i \in 1..Len(cards) : cards[i].minted => cards'[i] = cards[i]]_vars

(* C26: within a restock the increment is persisted before the instance:
   once the request has gone past saving the definition, the stored
   currentSupply of that definition is at least the value the request wrote,
   whether the instance is then stored or its save fails; and, for a triple
   whose records beyond the first were all created by restocks, the
   currentSupply of the definition never falls below the number of records
   of the triple. *)
C26_Original ==
    /\ \A a \in AdminReqs :
          (admin[a].existing # 0 /\ admin[a].cardToSave # NoCard)
          => cards[admin[a].existing].currentSupply >= admin[a].doc.currentSupply
    /\ \A name \in Names :
          (/\ Records(name) # {}
           /\ \A i \in Records(name) \ {FirstRecord(name)} : cards[i].minted)
          => cards[FirstRecord(name)].currentSupply >= Cardinality(Records(name))

(* C27: !mycards answers a known sender with exactly the names of the
   records whose ownerId equals the sender's twitchId, as stored when the
   lookup returns; an unknown sender is told to log in and no card is
   listed. *)
C27_OwnCardsOnly ==
    [][\A c \in ChatReqs :
        /\ (chat[c].pc = "listing" /\ chat'[c].outcome \in {"listed", "nocards"})
           => LET own == {i \in 1..Len(cards) :
                              cards[i].ownerId = chat[c].twitchId}
              IN /\ Len(chat'[c].listed) = Cardinality(own)
                 /\ \A name \in ChatNames :
                       Cardinality({k \in 1..Len(chat'[c].listed) :
                                        chat'[c].listed[k] = name})
                         = Cardinality({i \in own : cards[i].name = name})
                 /\ (chat'[c].outcome = "nocards") <=> (own = {})
        /\ (/\ chat[c].pc = "idle" /\ chat'[c].message = "!mycards"
            /\ FindByTwitchId(chat'[c].twitchId) = {})
           => (chat'[c].outcome = "unlinked" /\ chat'[c].listed = <<>>)]_vars

\* A sender who owns a card is answered with its name while the store also
\* holds a record that is not the sender's.
C27_Witness ==
    \E c \in ChatReqs :
        /\ chat[c].outcome = "listed" /\ Len(chat[c].listed) > 0
        /\ \E i \in 1..Len(cards) : cards[i].ownerId # chat[c].twitchId

(* C28: for every capped triple (maxSupply at least 1) the number of records
   of the triple never exceeds its maxSupply, under any interleaving of
   add-card requests and whichever matching record the lookup returns. *)
C28_Original ==
    \A name \in Names :
        (/\ Records(name) # {}
         /\ cards[FirstRecord(name)].maxSupply >= 1
         /\ \A i \in Records(name) :
               cards[i].maxSupply = cards[FirstRecord(name)].maxSupply)
        => Cardinality(Records(name)) <= cards[FirstRecord(name)].maxSupply

(* C29: every add-card request answered with status 400, for a failed
   validation or for an exhausted restock, is answered in the step in which
   it arrives, creates no record and leaves every existing record
   unchanged; the request does nothing afterwards. *)
C29_RefusedChangesNothing ==
    [][\A a \in AdminReqs :
        /\ (admin'[a].status = 400 /\ admin[a].status # 400)
           => (admin[a].pc = "idle" /\ admin'[a].pc = "done" /\ cards' = cards)
        /\ admin[a].status = 400
           => (admin'[a] = admin[a] \/ admin'[a] = IdleAdmin)]_vars

\* Both refusals have happened: one request failed the validation, another
\* met an exhausted definition, and the store holds that definition.
C29_Witness ==
    \E a, b \in AdminReqs :
        /\ admin[a].status = 400 /\ admin[a].existing = 0
        /\ admin[b].status = 400 /\ admin[b].existing # 0
        /\ DefinitionExhausted(cards[admin[b].existing])

(* C30: an add-card request from a session that resolves to no user, or to
   a user who is no admin, never creates or modifies a card record: it is
   finished in the step in which it arrives with the cards collection
   unchanged; behind isAuthenticated and isAdmin the answer is 401 for no
   user and 403 for a user who is no admin, and the route without
   middleware answers 201 and stores nothing. *)
C30_DeniedChangesNothing ==
    [][\A a \in AdminReqs :
        (/\ admin'[a] # admin[a] /\ admin'[a].uid # ""
         /\ \/ admin'[a].uid \notin Users
            \/ ~users[admin'[a].uid].exists
            \/ ~users[admin'[a].uid].isAdmin)
        => /\ admin[a].pc = "idle" /\ admin'[a].pc = "done"
           /\ cards' = cards
           /\ admin'[a].status \in
                 {IF admin'[a].uid \in Users /\ users[admin'[a].uid].exists
                  THEN 403 ELSE 401, 201}
           /\ admin'[a].cardToSave = NoCard /\ admin'[a].existing = 0]_vars

\* A session of nobody was answered 401 and a user who is no admin 403,
\* after an admin had stored a card.
C30_Witness ==
    /\ Len(cards) > 0
    /\ \E a, b \in AdminReqs :
          /\ admin[a].status = 401 /\ admin[a].uid \notin Users
          /\ admin[b].status = 403 /\ users[admin[b].uid].exists

(* C31: the effects of one claim on the user are all-or-nothing: the step in
   which a claim is answered with success stores its currency, its stamp and
   its inventory entry together, success is answered in no other step, a
   claim that ends otherwise leaves every user record as it was, and no
   other step of a claim changes a user record. *)
C31_AllOrNothing ==
    [][/\ \A p \in ClaimReqs :
            /\ (claim'[p].status = 200 /\ claim[p].status # 200)
               => LET u == claim[p].uid
                      doc == claim[p].user
                  IN /\ claim[p].pc = "saving"
                     /\ users'[u].currency = doc.currency
                     /\ users'[u].lastPackClaimed = doc.lastPackClaimed
                     /\ \E i \in 1..Len(users'[u].cards) :
                           users'[u].cards[i]
                             = doc.cards[FindIndex(doc.cards, claim[p].card)]
            /\ (/\ claim[p].pc \in {"finding", "saving"}
                /\ claim'[p].pc = "done" /\ claim'[p].status # 200)
               => users' = users
       /\ users' # users
            => \E p \in ClaimReqs :
                  claim[p].pc = "saving" /\ claim'[p].status = 200]_vars

\* One claim granted and stored whole, another of the same user failed on
\* its save and stored nothing.
C31_Witness ==
    \E p, q \in ClaimReqs :
        /\ claim[p].status = 200 /\ claim[q].message = "error"
        /\ claim[q].card # 0 /\ claim[q].uid = claim[p].uid
        /\ users[claim[p].uid].currency = STARTING_CURRENCY + DAILY_PACK_CURRENCY
        /\ users[claim[p].uid].lastPackClaimed = claim[p].now
        /\ Len(users[claim[p].uid].cards) = 1

\* The claim requests of user u answered with success, while no request
\* slot has been reused.
Granted(u) == {p \in ClaimReqs : claim[p].uid = u /\ claim[p].status = 200}
NoSlotReused == started = Cardinality({p \in ClaimReqs : claim[p].pc # "idle"})

(* C32: after any sequence or interleaving of claim requests, the persisted
   currency of a user equals the currency before those requests plus 50
   times the number of the user's claim requests answered with success. *)
C32_Original ==
    NoSlotReused
    => \A u \in Users :
          users[u].exists
          => users[u].currency
               = STARTING_CURRENCY + DAILY_PACK_CURRENCY * Cardinality(Granted(u))

\* The sum of the quantities of an inventory.
RECURSIVE TotalQuantity(_)
TotalQuantity(inv) ==
    IF inv = <<>> THEN 0
    ELSE inv[1].quantity + TotalQuantity(Tail(inv))

(* C33: the sum of the quantities in the persisted inventory of a user
   equals the number of the user's claim requests answered with success:
   each claim answered with success raises that sum by exactly 1, and no
   other step changes it. *)
C33_Original ==
    [][\A u \in Users :
         TotalQuantity(users'[u].cards) =
            TotalQuantity(users[u].cards)
              + Cardinality({p \in ClaimReqs :
                               /\ claim[p].uid = u
                               /\ claim'[p].status = 200
                               /\ claim[p].status # 200})]_vars

(* C34: the persisted lastPackClaimed of a user never decreases: every write
   stores a timestamp greater than or equal to the one stored before, for
   any interleaving of the user's claim requests. *)
C34_Original ==
    [][\A u \in Users :
         users'[u].lastPackClaimed >= users[u].lastPackClaimed]_vars

(* C35: the chat welcome message is sent exactly once per newly registered
   identity: a handler sends it in the step in which its save creates the
   user record of the sender and in no other step; so no welcome goes to a
   sender who already has a record, and of two concurrent first messages of
   one unseen twitchId exactly one handler sends it. *)
C35_WelcomeOnce ==
    /\ [][\A c \in ChatReqs :
             (chat'[c].welcomed /\ ~chat[c].welcomed)
             <=> /\ chat[c].pc = "creating" /\ chat'[c].pc # "creating"
                 /\ FindByTwitchId(chat[c].twitchId) = {}
                 /\ \E d \in Users :
                       /\ ~users[d].exists /\ users'[d].exists
                       /\ users'[d].twitchId = chat[c].twitchId]_vars
    /\ [](\A c, d \in ChatReqs :
            (/\ c # d /\ chat[c].twitchId = chat[d].twitchId
             /\ chat[c].twitchId # "")
            => ~(chat[c].welcomed /\ chat[d].welcomed))

\* Two first messages of one unseen identity were handled concurrently: one
\* handler created the record and sent the welcome, the other met the
\* duplicate key, fetched the record again and sent none.
C35_Witness ==
    \E c, d \in ChatReqs :
        /\ c # d /\ chat[c].twitchId = chat[d].twitchId
        /\ chat[c].pc = "done" /\ chat[c].welcomed
        /\ chat[d].pc = "done" /\ ~chat[d].welcomed
        /\ chat[d].newUser # NoUserDoc /\ chat[d].outcome = "evaluated"

(* C36: a restock never changes the maxSupply of the existing definition:
   when the triple matches a definition, the maxSupply of the request is
   ignored: no step changes the maxSupply of a stored record, and the record
   a restock creates carries the maxSupply of the definition it matched. *)
C36_RestockKeepsMaxSupply ==
    [][/\ \A i \in 1..Len(cards) :
            /\ i <= Len(cards')
            /\ cards'[i].maxSupply = cards[i].maxSupply
       /\ \A a \in AdminReqs :
            (/\ admin[a].pc = "savingCard" /\ admin'[a].status = 201
             /\ admin[a].existing # 0)
            => cards'[Len(cards')].maxSupply
                 = cards[admin[a].existing].maxSupply]_vars

\* A restock answered 201 whose request submitted another maxSupply than
\* the definition's.
C36_Witness ==
    \E a \in AdminReqs :
        /\ admin[a].status = 201 /\ admin[a].existing # 0
        /\ admin[a].finalMaxSupply # cards[admin[a].existing].maxSupply
        /\ cards[Len(cards)].minted
        /\ cards[Len(cards)].maxSupply = cards[admin[a].existing].maxSupply

(* C37: in the name-unique card model an add-card request whose name
   equals that of a stored card is rejected with 409 and leaves the card
   store unchanged, so at most one record per name exists, also when two
   requests for the same new name run concurrently; every accepted card is
   stored with currentSupply 0. *)
C37_NameUnique ==
    /\ [](\A name \in UniqueNames : Cardinality(Records(name)) <= 1)
    /\ [][\A a \in AdminReqs :
            /\ (/\ admin[a].pc = "inserting" /\ admin'[a].pc = "done"
                /\ Records(admin[a].name) # {})
               => (admin'[a].status \in {409, 500} /\ cards' = cards)
            /\ (admin'[a].status = 409 /\ admin[a].status # 409)
               => (Records(admin[a].name) # {} /\ cards' = cards)
            /\ (admin'[a].status = 201 /\ admin[a].status # 201)
               => /\ Records(admin[a].name) = {}
                  /\ Len(cards') = Len(cards) + 1
                  /\ cards'[Len(cards')].name = admin[a].name
                  /\ cards'[Len(cards')].currentSupply = 0
                  /\ \A i \in 1..Len(cards) : cards'[i] = cards[i]]_vars

\* Two requests for the same name are both answered, one with 201 and one
\* with 409, and the store holds one record of that name.
C37_Witness ==
    \E a, b \in AdminReqs :
        /\ admin[a].name = admin[b].name
        /\ admin[a].status = 201 /\ admin[b].status = 409
        /\ Cardinality(Records(admin[a].name)) = 1

====
